---------------------------- MODULE Spec2Model ----------------------------
(***************************************************************************)
(* The authentication and authorization engine of the Pharmacy Management  *)
(* System (src/src/controllers/auth.py): users, sessions, brute-force      *)
(* lockout, role permissions and the periodic session sweep.               *)
(*                                                                         *)
(* Time is a natural-number clock `now`.  One unit of the clock stands for *)
(* an arbitrary span of wall-clock time; the three durations of the        *)
(* program (lockout, session, remember-me) are scaled to a few clock units *)
(* each.  A Python None is the string "None" for references and the empty  *)
(* set for an optional timestamp ({t} when set).                           *)
(***************************************************************************)
EXTENDS Integers, Sequences, FiniteSets, TLC

(* ------------------------------ bounds -------------------------------- *)

\* The clock runs from 0 to MaxTime.
MaxTime == 3
\* How many users create_user may add to the default admin.
MaxNewUsers == 1
\* How many Session objects _create_session may allocate.
MaxSessions == 2
\* failed_login_attempts is capped here (it has no bound in the program).
MaxFailed == 4
\* lockout_duration_minutes, session_timeout_hours and the remember-me
\* duration, in clock units.
LockoutTicks == 1
SessionTicks == 1
RememberTicks == 2
\* The lifetime of a JWT (24 hours), in clock units.
TokenTicks == 2
\* How many JWTs generate_jwt_token may hand out.
MaxTokens == 1

(* --------------------------- program constants ------------------------ *)

max_login_attempts == 3

None == "None"

UserRole == {"admin", "pharmacist", "nutritionist", "assistant", "viewer"}

Permission ==
  {"client:create", "client:read", "client:update", "client:delete",
   "diet:create", "diet:read", "diet:update", "diet:delete",
   "report:generate", "report:view", "report:delete",
   "user:manage", "settings:manage", "backup:restore", "audit:view"}

USER_MANAGE == "user:manage"
AUDIT_VIEW == "audit:view"

ACTIVE == "active"
EXPIRED == "expired"
TERMINATED == "terminated"
SessionStatus == {ACTIVE, EXPIRED, TERMINATED, "locked"}

\* A table in which the viewer may also update clients.
get_permissions_viewer_updates(role) ==
  CASE role = "admin" -> Permission
    [] role \in {"pharmacist", "nutritionist"} ->
         {"client:create", "client:read", "client:update",
          "diet:create", "diet:read", "diet:update",
          "report:generate", "report:view"}
    [] role = "assistant" ->
         {"client:create", "client:read", "client:update",
          "diet:read", "report:view"}
    [] role = "viewer" ->
         {"client:read", "client:update", "diet:read", "report:view"}
    [] OTHER -> {}

\* User.get_permissions: the role -> permission table.
get_permissions(role) ==
  CASE role = "admin" -> Permission
    [] role \in {"pharmacist", "nutritionist"} ->
         {"client:create", "client:read", "client:update",
          "diet:create", "diet:read", "diet:update",
          "report:generate", "report:view"}
    [] role = "assistant" ->
         {"client:create", "client:read", "client:update",
          "diet:read", "report:view"}
    [] role = "viewer" -> {"client:read", "diet:read", "report:view"}
    [] OTHER -> {}

(* ------------------------------ identifiers --------------------------- *)

admin_001 == "admin_001"
\* create_user's fresh ids ("user_<timestamp>_<random hex>"), in the order
\* they are handed out.
UserIdPool == <<"user_1", "user_2", "user_3">>
\* _generate_session_id's fresh ids, in the order they are handed out.
SessionIdPool == <<"sid_1", "sid_2", "sid_3", "sid_4">>
\* _generate_salt's random values: 128 random bits, taken as never repeating
\* among the salts in use.
SaltPool == <<"salt_1", "salt_2", "salt_3", "salt_4", "salt_5">>

NewUserIds == {UserIdPool[i] : i \in 1..MaxNewUsers}
UserIds == {admin_001} \cup NewUserIds
SessionIds == {SessionIdPool[i] : i \in 1..MaxSessions}

\* Position of a user in the insertion order of the _users dict.
UserOrder(uid) ==
  IF uid = admin_001 THEN 0
  ELSE CHOOSE i \in 1..Len(UserIdPool) : UserIdPool[i] = uid

\* Position of a session in the insertion order of the _sessions dict.
SessionOrder(sid) == CHOOSE i \in 1..Len(SessionIdPool) : SessionIdPool[i] = sid

(* ------------------------------- state -------------------------------- *)

VARIABLES
  now,              \* datetime.now()
  initialized,      \* BaseController._initialized
  session_timer,    \* AuthController._session_timer: TRUE while it runs
  users,            \* AuthController._users: user id -> User
  sessObj,          \* every Session object allocated so far: id -> Session
  sessions,         \* AuthController._sessions: the ids in the dict
  current_user,     \* AuthController.current_user: a user id or None
  current_session,  \* AuthController.current_session: a session id or None
  emitted,          \* the signals emitted by the login() calls in flight
  thr,              \* the login() calls in flight, one per thread
  tokens,           \* the JWTs generate_jwt_token has handed out
  controllers,      \* ControllerManager._controllers: name -> _initialized
  initialization_order,  \* ControllerManager._initialization_order
  dependencies,     \* the dependencies each register_controller was given
  initialize_calls  \* the controllers initialize_all has initialized, in order

vars == <<now, initialized, session_timer, users, sessObj, sessions,
          current_user, current_session, emitted, thr, tokens,
          controllers, initialization_order, dependencies, initialize_calls>>

mgr == <<controllers, initialization_order, dependencies, initialize_calls>>
ctl == <<initialized, session_timer>>
auth == <<users, sessObj, sessions, current_user, current_session>>

(* --------------------------- pure functions --------------------------- *)

\* _hash_password: PBKDF2 is modelled as an injective function of
\* (password, salt).
hash_password(password, salt) == <<password, salt>>

\* _verify_password
verify_password(password, password_hash, salt) ==
  hash_password(password, salt) = password_hash

\* A lock that still holds at the instant locked_until.
is_locked_inclusive(user) == \E t \in user.locked_until : now <= t

\* A lock that never holds.
is_locked_never(user) == FALSE

\* User.is_locked
is_locked(user) == \E t \in user.locked_until : now < t

\* A session still valid at the instant expires_at.
is_valid_inclusive(session) ==
  session.status = ACTIVE /\ now <= session.expires_at

\* Session.is_valid
is_valid(session) == session.status = ACTIVE /\ now < session.expires_at

\* User.has_permission
user_has_permission(user, permission) == permission \in get_permissions(user.role)

\* A permission check that skips the validity of the session.
has_permission_unchecked(permission) ==
  IF current_user = None \/ current_session = None THEN FALSE
  ELSE user_has_permission(users[current_user], permission)

\* AuthController.has_permission
has_permission(permission) ==
  IF current_user = None \/ current_session = None THEN FALSE
  ELSE IF ~is_valid(sessObj[current_session]) THEN FALSE
  ELSE user_has_permission(users[current_user], permission)

\* AuthController.is_authenticated
is_authenticated ==
  /\ current_user # None
  /\ current_session # None
  /\ is_valid(sessObj[current_session])

\* A lookup by username alone.
find_user_by_username(identifier) ==
  LET hits == {uid \in DOMAIN users : users[uid].username = identifier}
  IN IF hits = {} THEN None
     ELSE CHOOSE uid \in hits : \A o \in hits : UserOrder(uid) <= UserOrder(o)

\* _find_user_by_username_or_email: the first match in dict order, or None.
find_user_by_username_or_email(identifier) ==
  LET hits == {uid \in DOMAIN users :
                 \/ users[uid].username = identifier
                 \/ users[uid].email = identifier}
  IN IF hits = {} THEN None
     ELSE CHOOSE uid \in hits : \A o \in hits : UserOrder(uid) <= UserOrder(o)


(* ------------------------------ validation ---------------------------- *)

\* str.strip() and the removal of control characters, on the strings used
\* here (sanitize_input also truncates to max_length; no string used here
\* is that long).
sanitize_input(text, max_length) ==
  CASE text = " alice " -> "alice"
    [] OTHER -> text

\* str.lower() on the e-mail addresses used here.
lower(text) ==
  CASE text = "ADMIN@pharmacy.local" -> "admin@pharmacy.local"
    [] OTHER -> text

\* re.match(r'^[a-zA-Z0-9_-]+$', username)
UsernamePattern == {"admin", "alice", "bob", "al"}

\* validate_email: the strings matching the e-mail pattern.
validate_email(email) ==
  email \in {"admin@pharmacy.local", "ADMIN@pharmacy.local",
             "alice@pharmacy.local", "bob@pharmacy.local"}

\* validate_password: the requirements each password meets (min_length,
\* has_uppercase, has_lowercase, has_digit, has_special); valid from 3 up.
password_requirements(password) ==
  CASE password = "admin123" -> {"min_length", "has_lowercase", "has_digit"}
    [] password = "Str0ngPass" ->
         {"min_length", "has_uppercase", "has_lowercase", "has_digit"}
    [] password = "N3wPass!" ->
         {"min_length", "has_uppercase", "has_lowercase", "has_digit", "has_special"}
    [] password = "wrong" -> {"has_lowercase"}
    [] password = "weak" -> {"has_lowercase"}
    [] OTHER -> {}

validate_password(password) ==
  password # "" /\ Cardinality(password_requirements(password)) >= 3

\* A validation that lets every login through.
validate_login_data_any(username, password) == TRUE

\* AuthValidator.validate_login_data: is_valid.
validate_login_data(username, password) ==
  /\ username # ""
  /\ Len(sanitize_input(username, 100)) >= 3
  /\ Len(sanitize_input(username, 100)) <= 100
  /\ password # ""

\* AuthValidator.validate_user_data: [is_valid, data].  A dict is a function
\* on the keys it holds; a key with an empty value counts as missing.
validate_user_data(data, is_update) ==
  LET has(f) == f \in DOMAIN data /\ data[f] # ""
      missing == IF is_update THEN {}
                 ELSE {f \in {"username", "email", "password", "role"} : ~has(f)}
      username == sanitize_input(data.username, 50)
      username_ok == /\ Len(username) >= 3 /\ Len(username) <= 50
                     /\ username \in UsernamePattern
      email == sanitize_input(data.email, 255)
      email_ok == validate_email(email)
      password_ok == validate_password(data.password)
      role_ok == data.role \in UserRole
      errors == \/ missing # {}
                \/ has("username") /\ ~username_ok
                \/ has("email") /\ ~email_ok
                \/ has("password") /\ ~password_ok
                \/ has("role") /\ ~role_ok
      keys == {f \in {"username", "email", "password", "role"} : has(f)}
                \cup ({"is_active"} \cap DOMAIN data)
      kept == {f \in keys :
                 \/ f = "username" /\ username_ok
                 \/ f = "email" /\ email_ok
                 \/ f = "password" /\ password_ok
                 \/ f = "role" /\ role_ok
                 \/ f = "is_active"}
  IN [is_valid |-> ~errors,
      data |-> [f \in kept |->
                  CASE f = "username" -> username
                    [] f = "email" -> lower(email)
                    [] OTHER -> data[f]]]

(* ------------------------------- inputs ------------------------------- *)

LoginIdentifiers == {"admin", "alice", "bob", "alice@pharmacy.local", "", "al"}
LoginPasswords == {"admin123", "Str0ngPass", "wrong", ""}

CreateInputs ==
  {[username |-> u, email |-> e, password |-> p, role |-> r] :
     u \in {"alice", "admin", " alice "},
     e \in {"alice@pharmacy.local", "ADMIN@pharmacy.local"},
     p \in {"Str0ngPass", "weak"},
     r \in {"assistant", "admin"}}
  \cup {[username |-> "alice", email |-> "alice@pharmacy.local",
         password |-> "Str0ngPass", role |-> "viewer", is_active |-> FALSE],
        [username |-> "alice", email |-> "", password |-> "Str0ngPass",
         role |-> "viewer"],
        [username |-> "bob", email |-> "bob@pharmacy.local",
         password |-> "Str0ngPass", role |-> "assistant"]}

UpdateInputs ==
  {[username |-> "bob"], [username |-> "admin"], [email |-> "bob@pharmacy.local"],
   [role |-> "admin"], [role |-> "assistant"], [role |-> "root"],
   [is_active |-> FALSE], [is_active |-> TRUE],
   [username |-> "bob", email |-> "ADMIN@pharmacy.local"]}

(* ---------------------------- constructors ---------------------------- *)

\* User.__init__ (created_at and last_login are written and never read by
\* the operations below; they are left out)
User(username, email, role, password_hash, salt, is_active) ==
  [username |-> username, email |-> email, role |-> role,
   password_hash |-> password_hash, salt |-> salt, is_active |-> is_active,
   failed_login_attempts |-> 0, locked_until |-> {}]

\* Session.__init__ (created_at, ip_address and user_agent are left out)
Session(user_id, username, role, expires_at) ==
  [user_id |-> user_id, username |-> username, role |-> role,
   expires_at |-> expires_at, last_activity |-> now, status |-> ACTIVE]

\* _create_default_admin
create_default_admin(salt) ==
  User("admin", "admin@pharmacy.local", "admin",
       hash_password("admin123", salt), salt, TRUE)

\* The id _generate_session_id hands out next.
generate_session_id == SessionIdPool[Cardinality(DOMAIN sessObj) + 1]

\* _generate_salt: the first salt of the pool that no user holds.
generate_salt ==
  LET free == {i \in 1..Len(SaltPool) :
                 \A uid \in DOMAIN users : users[uid].salt # SaltPool[i]}
  IN SaltPool[CHOOSE i \in free : \A j \in free : i <= j]

\* The id create_user hands out next.
generate_user_id == UserIdPool[Cardinality(DOMAIN users \ {admin_001}) + 1]

(***************************************************************************)
(* A handler is a function of the state it is called in and of its         *)
(* arguments: it yields its return value (val), the signals it emits (sig) *)
(* and the state it leaves.  The operator named after a handler is that    *)
(* function; the action of the same name, capitalised, applies it.         *)
(***************************************************************************)
Effect(val, sig, u, so, se, cu, cs) ==
  [val |-> val, sig |-> sig, users |-> u, sessObj |-> so, sessions |-> se,
   current_user |-> cu, current_session |-> cs]

\* A return that leaves the state as it is.
Return(val, sig) ==
  Effect(val, sig, users, sessObj, sessions, current_user, current_session)

\* The bounds of the model, on the state a handler leaves.
WithinBounds(e) ==
  /\ Cardinality(DOMAIN e.sessObj) <= MaxSessions
  /\ Cardinality(DOMAIN e.users \ {admin_001}) <= MaxNewUsers
  /\ \A uid \in DOMAIN e.users : e.users[uid].failed_login_attempts <= MaxFailed

Apply(e) ==
  /\ WithinBounds(e)
  /\ users' = e.users
  /\ sessObj' = e.sessObj
  /\ sessions' = e.sessions
  /\ current_user' = e.current_user
  /\ current_session' = e.current_session
  /\ UNCHANGED <<now, initialized, session_timer, emitted, thr, tokens, mgr>>

(* ------------------------------ lifecycle ----------------------------- *)

Init ==
  /\ now = 0
  /\ initialized = FALSE
  /\ session_timer = FALSE
  /\ users = <<>>
  /\ sessObj = <<>>
  /\ sessions = {}
  /\ current_user = None
  /\ current_session = None
  /\ emitted = <<>>
  /\ thr = <<>>
  /\ tokens = {}
  /\ controllers = <<>>
  /\ initialization_order = <<>>
  /\ dependencies = <<>>
  /\ initialize_calls = <<>>

\* A load that puts the default admin in place whatever the map holds.
load_users_default_again ==
  (admin_001 :> create_default_admin(generate_salt)) @@ users

\* _load_users
load_users ==
  IF DOMAIN users = {} THEN (admin_001 :> create_default_admin(generate_salt))
  ELSE users

\* An initialize that runs _do_initialize on every call.
Initialize_every_call ==
  /\ users' = load_users
  /\ session_timer' = TRUE
  /\ initialized' = TRUE
  /\ UNCHANGED <<now, sessObj, sessions, current_user, current_session,
                 emitted, thr, tokens, mgr>>

\* BaseController.initialize with AuthController._do_initialize
Initialize ==
  /\ IF initialized
     THEN UNCHANGED <<initialized, session_timer, users>>
     ELSE /\ users' = load_users
          /\ session_timer' = TRUE
          /\ initialized' = TRUE
  /\ UNCHANGED <<now, sessObj, sessions, current_user, current_session,
                 emitted, thr, tokens, mgr>>

\* The clock advances.
Tick ==
  /\ now < MaxTime
  /\ now' = now + 1
  /\ UNCHANGED <<ctl, auth, emitted, thr, tokens, mgr>>

(* ---------------------------- authentication -------------------------- *)

\* login, lines 379-397: the bookkeeping of a wrong password.
failed_login(user) ==
  LET attempts == user.failed_login_attempts + 1
  IN [user EXCEPT
        !.failed_login_attempts = attempts,
        !.locked_until = IF attempts >= max_login_attempts
                         THEN {now + LockoutTicks} ELSE @]

\* login, lines 399-401: the reset on a successful login.
successful_login(user) ==
  [user EXCEPT !.failed_login_attempts = 0, !.locked_until = {}]

\* _create_session: the Session it registers.
create_session(user_id, duration_hours) ==
  Session(user_id, users[user_id].username, users[user_id].role,
          now + duration_hours)

\* AuthController.login
login(username, password, remember_me) ==
  LET uid == find_user_by_username_or_email(username)
      user == users[uid]
      session_id == generate_session_id
      session_duration == IF remember_me THEN RememberTicks ELSE SessionTicks
  IN
  IF ~validate_login_data(username, password)
  THEN Return(FALSE, <<"error_occurred">>)
  ELSE IF uid = None
  THEN Return(FALSE, <<"login_failed", "error_occurred">>)
  ELSE IF ~user.is_active
  THEN Return(FALSE, <<"login_failed", "error_occurred">>)
  ELSE IF is_locked(user)
  THEN Return(FALSE, <<"account_locked", "error_occurred">>)
  ELSE IF ~verify_password(password, user.password_hash, user.salt)
  THEN Effect(FALSE,
              IF failed_login(user).failed_login_attempts >= max_login_attempts
              THEN <<"account_locked", "error_occurred", "login_failed">>
              ELSE <<"error_occurred", "login_failed">>,
              [users EXCEPT ![uid] = failed_login(user)],
              sessObj, sessions, current_user, current_session)
  ELSE Effect(TRUE, <<"success_occurred", "user_logged_in", "data_changed">>,
              [users EXCEPT ![uid] = successful_login(user)],
              sessObj @@ (session_id :> create_session(uid, session_duration)),
              sessions \cup {session_id},
              uid, session_id)

Login(username, password, remember_me) ==
  /\ Apply(login(username, password, remember_me))

\* A logout that clears the current user and leaves the session alone.
logout_keeps_session ==
  IF current_user = None \/ current_session = None
  THEN Return(FALSE, <<"error_occurred">>)
  ELSE Effect(TRUE, <<"success_occurred", "user_logged_out", "data_changed">>,
              users, sessObj, sessions, None, None)

\* AuthController.logout
logout ==
  IF current_user = None \/ current_session = None
  THEN Return(FALSE, <<"error_occurred">>)
  ELSE Effect(TRUE, <<"success_occurred", "user_logged_out", "data_changed">>,
              users,
              IF current_session \in sessions
              THEN [sessObj EXCEPT ![current_session].status = TERMINATED]
              ELSE sessObj,
              sessions \ {current_session},
              None, None)

Logout ==
  /\ Apply(logout)

\* AuthController.change_password
change_password(current_password, new_password) ==
  LET new_salt == generate_salt
  IN
  IF current_user = None
  THEN Return(FALSE, <<"error_occurred">>)
  ELSE IF ~verify_password(current_password, users[current_user].password_hash,
                           users[current_user].salt)
  THEN Return(FALSE, <<"error_occurred">>)
  ELSE IF ~validate_password(new_password)
  THEN Return(FALSE, <<"error_occurred">>)
  ELSE Effect(TRUE, <<"success_occurred", "password_changed">>,
              [users EXCEPT
                 ![current_user].salt = new_salt,
                 ![current_user].password_hash =
                   hash_password(new_password, new_salt)],
              sessObj, sessions, current_user, current_session)

ChangePassword(current_password, new_password) ==
  /\ Apply(change_password(current_password, new_password))

(* ---------------------------- session sweep --------------------------- *)

\* A sweep over every session ever created, not only those of the dict.
expired_sessions_all == {sid \in DOMAIN sessObj : ~is_valid(sessObj[sid])}

\* A sweep that spares a session at the instant expires_at.
expired_sessions_strict ==
  {sid \in sessions :
     sessObj[sid].status # ACTIVE \/ now > sessObj[sid].expires_at}

\* _check_session_expiry, lines 305-308: the sessions the sweep collects.
expired_sessions == {sid \in sessions : ~is_valid(sessObj[sid])}

\* A set of session ids as the list in dict order.
RECURSIVE InOrder(_)
InOrder(S) ==
  IF S = {} THEN <<>>
  ELSE LET first == CHOOSE sid \in S : \A o \in S : SessionOrder(sid) <= SessionOrder(o)
       IN <<first>> \o InOrder(S \ {first})

\* The signals of one sweep, each with its argument: session_expired per
\* session and, for the current session, those of _handle_session_expiry.
RECURSIVE sweep_signals(_)
sweep_signals(ids) ==
  IF ids = <<>> THEN <<>>
  ELSE <<<<"session_expired", Head(ids)>>>>
       \o (IF Head(ids) = current_session /\ current_user # None
           THEN << <<"error_occurred", "Session Expired">>,
                   <<"user_logged_out", users[current_user].username>> >>
           ELSE <<>>)
       \o sweep_signals(Tail(ids))

\* _check_session_expiry with _handle_session_expiry
check_session_expiry ==
  LET expired == expired_sessions
      own == current_session # None /\ current_session \in expired
      handled == own /\ current_user # None
  IN Effect(None, sweep_signals(InOrder(expired)),
            users,
            [sid \in DOMAIN sessObj |->
               IF sid \in expired
               THEN [sessObj[sid] EXCEPT !.status = EXPIRED]
               ELSE sessObj[sid]],
            sessions \ expired,
            IF handled THEN None ELSE current_user,
            IF handled THEN None ELSE current_session)

\* The timer of _start_session_monitoring fires.
CheckSessionExpiry ==
  /\ session_timer
  /\ Apply(check_session_expiry)

\* AuthController.cleanup
Cleanup ==
  /\ session_timer' = FALSE
  /\ current_user' = None
  /\ current_session' = None
  /\ sessions' = {}
  /\ UNCHANGED <<now, initialized, users, sessObj, emitted, thr, tokens, mgr>>

(* --------------------------- user management -------------------------- *)

\* A create_user that looks for the username alone.
create_user_by_username(user_data) ==
  LET validation_result == validate_user_data(user_data, FALSE)
      validated_data == validation_result.data
      user_id == generate_user_id
      salt == generate_salt
      user == User(validated_data.username, validated_data.email,
                   validated_data.role,
                   hash_password(validated_data.password, salt), salt,
                   IF "is_active" \in DOMAIN validated_data
                   THEN validated_data.is_active ELSE TRUE)
  IN
  IF ~has_permission(USER_MANAGE)
  THEN Return(None, <<"error_occurred">>)
  ELSE IF ~validation_result.is_valid
  THEN Return(None, <<"error_occurred">>)
  ELSE IF find_user_by_username_or_email(validated_data.username) # None
  THEN Return(None, <<"error_occurred">>)
  ELSE Effect(user_id, <<"success_occurred", "user_created", "data_changed">>,
              users @@ (user_id :> user),
              sessObj, sessions, current_user, current_session)

\* AuthController.create_user
create_user(user_data) ==
  LET validation_result == validate_user_data(user_data, FALSE)
      validated_data == validation_result.data
      user_id == generate_user_id
      salt == generate_salt
      user == User(validated_data.username, validated_data.email,
                   validated_data.role,
                   hash_password(validated_data.password, salt), salt,
                   IF "is_active" \in DOMAIN validated_data
                   THEN validated_data.is_active ELSE TRUE)
  IN
  IF ~has_permission(USER_MANAGE)
  THEN Return(None, <<"error_occurred">>)
  ELSE IF ~validation_result.is_valid
  THEN Return(None, <<"error_occurred">>)
  ELSE IF find_user_by_username_or_email(validated_data.username) # None
  THEN Return(None, <<"error_occurred">>)
  ELSE IF find_user_by_username_or_email(validated_data.email) # None
  THEN Return(None, <<"error_occurred">>)
  ELSE Effect(user_id, <<"success_occurred", "user_created", "data_changed">>,
              users @@ (user_id :> user),
              sessObj, sessions, current_user, current_session)

CreateUser(user_data) ==
  /\ Apply(create_user(user_data))

\* update_user, lines 616-637: the assignments in the order they are made,
\* and whether the call got through them: [ok, user].
apply_update(user_id, validated_data) ==
  LET user == users[user_id]
      taken(identifier) ==
        LET existing_user == find_user_by_username_or_email(identifier)
        IN existing_user # None /\ existing_user # user_id
      has(f) == f \in DOMAIN validated_data
      u1 == IF has("username")
            THEN [user EXCEPT !.username = validated_data.username] ELSE user
      u2 == IF has("email") THEN [u1 EXCEPT !.email = validated_data.email] ELSE u1
      u3 == IF has("role") THEN [u2 EXCEPT !.role = validated_data.role] ELSE u2
      u4 == IF has("is_active")
            THEN [u3 EXCEPT !.is_active = validated_data.is_active] ELSE u3
  IN IF has("username") /\ taken(validated_data.username)
     THEN [ok |-> FALSE, user |-> user]
     ELSE IF has("email") /\ taken(validated_data.email)
     THEN [ok |-> FALSE, user |-> u1]
     ELSE [ok |-> TRUE, user |-> u4]

\* AuthController.update_user
update_user(user_id, updated_data) ==
  LET validation_result == validate_user_data(updated_data, TRUE)
      applied == apply_update(user_id, validation_result.data)
  IN
  IF ~has_permission(USER_MANAGE)
  THEN Return(FALSE, <<"error_occurred">>)
  ELSE IF user_id \notin DOMAIN users
  THEN Return(FALSE, <<"error_occurred">>)
  ELSE IF ~validation_result.is_valid
  THEN Return(FALSE, <<"error_occurred">>)
  ELSE Effect(applied.ok,
              IF applied.ok
              THEN <<"success_occurred", "user_updated", "data_changed">>
              ELSE <<"error_occurred">>,
              [users EXCEPT ![user_id] = applied.user],
              sessObj, sessions, current_user, current_session)

UpdateUser(user_id, updated_data) ==
  /\ Apply(update_user(user_id, updated_data))

\* A delete_user that collects every session of the dict.
sessions_to_remove_all(user_id) == sessions

\* A delete_user that collects no session.
sessions_to_remove_none(user_id) == {}

\* delete_user, lines 682-686: the sessions delete_user collects.
sessions_to_remove(user_id) == {sid \in sessions : sessObj[sid].user_id = user_id}

\* delete_user, lines 679-689: the deactivation and the removal of the
\* user's sessions from the dict.
deactivate(user_id) ==
  Effect(TRUE, <<"success_occurred", "user_deleted", "data_changed">>,
         [users EXCEPT ![user_id].is_active = FALSE],
         sessObj,
         sessions \ sessions_to_remove(user_id),
         current_user, current_session)

\* AuthController.delete_user
delete_user(user_id) ==
  IF ~has_permission(USER_MANAGE)
  THEN Return(FALSE, <<"error_occurred">>)
  ELSE IF user_id \notin DOMAIN users
  THEN Return(FALSE, <<"error_occurred">>)
  ELSE IF current_user # None /\ user_id = current_user
  THEN Return(FALSE, <<"error_occurred">>)
  ELSE deactivate(user_id)

DeleteUser(user_id) ==
  /\ Apply(delete_user(user_id))

\* AuthController.get_all_users: the ids of the users it lists.
get_all_users(include_inactive) ==
  IF ~has_permission(USER_MANAGE) THEN {}
  ELSE {uid \in DOMAIN users : include_inactive \/ users[uid].is_active}

\* AuthController.reset_failed_login_attempts
reset_failed_login_attempts(username) ==
  LET uid == find_user_by_username_or_email(username)
  IN
  IF ~has_permission(USER_MANAGE)
  THEN Return(FALSE, <<"error_occurred">>)
  ELSE IF uid = None
  THEN Return(FALSE, <<"error_occurred">>)
  ELSE Effect(TRUE, <<"success_occurred">>,
              [users EXCEPT ![uid].failed_login_attempts = 0,
                            ![uid].locked_until = {}],
              sessObj, sessions, current_user, current_session)

ResetFailedLoginAttempts(username) ==
  /\ Apply(reset_failed_login_attempts(username))

(* --------------------------- session management ----------------------- *)

\* Session.extend_session
extend_session(session, hours) ==
  [session EXCEPT !.expires_at = now + hours, !.last_activity = now]

\* AuthController.extend_current_session
extend_current_session(hours) ==
  IF current_session = None
  THEN Return(FALSE, <<>>)
  ELSE Effect(TRUE, <<>>, users,
              [sessObj EXCEPT ![current_session] = extend_session(@, hours)],
              sessions, current_user, current_session)

ExtendCurrentSession(hours) ==
  /\ Apply(extend_current_session(hours))

\* AuthController.get_active_sessions: the ids of the sessions it lists.
get_active_sessions ==
  IF ~has_permission(AUDIT_VIEW) THEN {}
  ELSE {sid \in sessions : is_valid(sessObj[sid])}

\* AuthController.terminate_session
terminate_session(session_id) ==
  IF ~has_permission(USER_MANAGE)
  THEN Return(FALSE, <<"error_occurred">>)
  ELSE IF session_id \in sessions
  THEN Effect(TRUE, <<"success_occurred">>, users,
              [sessObj EXCEPT ![session_id].status = TERMINATED],
              sessions \ {session_id},
              current_user, current_session)
  ELSE Return(FALSE, <<"error_occurred">>)

TerminateSession(session_id) ==
  /\ Apply(terminate_session(session_id))

(* --------------------------------- JWT -------------------------------- *)

\* security.jwt_secret, which _do_initialize reads before any User exists.
jwt_secret == "your-secret-key-change-in-production"

\* The HS256 signature: determined by the payload and the key, and
\* different for different payloads or keys.
jwt_sign(payload, key) == <<payload, key>>

\* jwt.encode
jwt_encode(payload, key) ==
  [payload |-> payload, signature |-> jwt_sign(payload, key)]

\* jwt.decode: the payload, or the exception raised.  The signature is
\* verified first, then the exp claim.
jwt_decode(token, key) ==
  IF token.signature # jwt_sign(token.payload, key)
  THEN [raised |-> "InvalidTokenError"]
  ELSE IF token.payload.exp <= now
  THEN [raised |-> "ExpiredSignatureError"]
  ELSE [raised |-> None, payload |-> token.payload]

\* AuthController.generate_jwt_token
generate_jwt_token(user_id) ==
  jwt_encode([user_id |-> user_id,
              username |-> users[user_id].username,
              role |-> users[user_id].role,
              exp |-> now + TokenTicks,
              iat |-> now],
             jwt_secret)

\* A verification that also asks for the token's user to be active.
verify_jwt_token_active_user(token) ==
  LET decoded == jwt_decode(token, jwt_secret)
  IN IF decoded.raised = None
        /\ token.payload.user_id \in DOMAIN users
        /\ users[token.payload.user_id].is_active
     THEN {decoded.payload} ELSE {}

\* AuthController.verify_jwt_token: the Optional[Dict] it returns, as the
\* set holding the payload, or the empty set for None.
verify_jwt_token(token) ==
  LET decoded == jwt_decode(token, jwt_secret)
  IN IF decoded.raised = "ExpiredSignatureError" THEN {}
     ELSE IF decoded.raised = "InvalidTokenError" THEN {}
     ELSE {decoded.payload}

\* generate_jwt_token called for a user; the caller keeps the token.
GenerateJwtToken(user_id) ==
  /\ user_id \in DOMAIN users
  /\ Cardinality(tokens) < MaxTokens
  /\ tokens' = tokens \cup {generate_jwt_token(user_id)}
  /\ UNCHANGED <<now, ctl, auth, emitted, thr, mgr>>

(* ------------------------- ControllerManager -------------------------- *)

\* The names controllers are registered under.
ControllerNames == {"auth", "client", "diet"}

\* The lists of dependencies a controller is registered with: None, or
\* names other than its own, each once, in either order.
DependencyLists(name) ==
  LET others == ControllerNames \ {name}
  IN {<<>>} \cup {<<d>> : d \in others}
          \cup {<<d, e>> : <<d, e>> \in {p \in others \X others : p[1] # p[2]}}

\* The elements of a list.
Range(list) == {list[i] : i \in 1..Len(list)}

\* "if x not in order: order.append(x)" for each x of a list, in turn.
RECURSIVE append_missing(_, _)
append_missing(order, names) ==
  IF names = <<>> THEN order
  ELSE append_missing(IF Head(names) \in Range(order) THEN order
                      ELSE Append(order, Head(names)),
                      Tail(names))

\* register_controller, lines 380-386: the order it leaves.
register_order(name, deps) ==
  append_missing(initialization_order, deps \o <<name>>)

\* ControllerManager.register_controller, for a name not registered yet.
RegisterController(name, deps) ==
  /\ name \notin DOMAIN controllers
  /\ controllers' = (name :> FALSE) @@ controllers
  /\ initialization_order' = register_order(name, deps)
  /\ dependencies' = (name :> Range(deps)) @@ dependencies
  /\ UNCHANGED <<now, ctl, auth, emitted, thr, tokens, initialize_calls>>

\* initialize_all, lines 408-411: the controllers it initializes, in order.
RECURSIVE to_initialize(_)
to_initialize(order) ==
  IF order = <<>> THEN <<>>
  ELSE (IF Head(order) \in DOMAIN controllers /\ ~controllers[Head(order)]
        THEN <<Head(order)>> ELSE <<>>)
       \o to_initialize(Tail(order))

\* ControllerManager.initialize_all, with BaseController.initialize
InitializeAll ==
  /\ controllers' = [name \in DOMAIN controllers |-> TRUE]
  /\ initialize_calls' = initialize_calls \o to_initialize(initialization_order)
  /\ UNCHANGED <<now, ctl, auth, emitted, thr, tokens, initialization_order,
                 dependencies>>

\* ControllerManager.cleanup_all
CleanupAll ==
  /\ controllers' = <<>>
  /\ initialization_order' = <<>>
  /\ dependencies' = <<>>
  /\ initialize_calls' = <<>>
  /\ UNCHANGED <<now, ctl, auth, emitted, thr, tokens>>

(* ---------------------------- specifications -------------------------- *)

\* Controllers registered in every order, with every list of dependencies.
NextManager ==
  \/ \E name \in ControllerNames :
        \E deps \in DependencyLists(name) : RegisterController(name, deps)
  \/ InitializeAll
  \/ CleanupAll

SpecManager == Init /\ [][NextManager]_vars


\* The accounts the session lifecycle logs in with.
Credentials == {<<"admin", "admin123">>, <<"alice", "Str0ngPass">>}

Alice ==
  [username |-> "alice", email |-> "alice@pharmacy.local",
   password |-> "Str0ngPass", role |-> "assistant"]

\* The session lifecycle: correct-password logins of two accounts, the
\* clock, the sweep, the session operations and the user management that
\* touches sessions and roles.
Next ==
  \/ Initialize
  \/ Tick
  \/ \E c \in Credentials, remember_me \in {FALSE} : Login(c[1], c[2], remember_me)
  \/ Logout
  \/ CheckSessionExpiry
  \/ Cleanup
  \/ CreateUser(Alice)
  \/ \E user_id \in UserIds, updated_data \in {[role |-> "admin"], [role |-> "assistant"]} :
        UpdateUser(user_id, updated_data)
  \/ \E user_id \in UserIds : DeleteUser(user_id)
  \/ \E hours \in {SessionTicks} : ExtendCurrentSession(hours)
  \/ \E session_id \in SessionIds : TerminateSession(session_id)

Spec == Init /\ [][Next]_vars

\* The lockout policy: logins with every identifier and password, the
\* clock, and the operations that reset or retire an account.
NextLock ==
  \/ Initialize
  \/ Tick
  \/ \E username \in LoginIdentifiers, password \in LoginPasswords :
        Login(username, password, FALSE)
  \/ Logout
  \/ CreateUser(Alice)
  \/ \E username \in {"admin", "alice"} : ResetFailedLoginAttempts(username)

SpecLock == Init /\ [][NextLock]_vars

\* The user directory: creation, update and deactivation with every input.
NextUsers ==
  \/ Initialize
  \/ Login("admin", "admin123", FALSE)
  \/ Logout
  \/ \E user_data \in CreateInputs : CreateUser(user_data)
  \/ \E user_id \in UserIds \cup {"user_0"}, updated_data \in UpdateInputs :
        UpdateUser(user_id, updated_data)
  \/ \E user_id \in UserIds \cup {"user_0"} : DeleteUser(user_id)

SpecUsers == Init /\ [][NextUsers]_vars

\* The passwords change_password is called with.
ChangePasswords == {"admin123", "N3wPass!", "weak", ""}

\* Password changes over the life of a session.
NextPassword ==
  \/ Initialize
  \/ Tick
  \/ \E password \in {"admin123", "N3wPass!"} : Login("admin", password, FALSE)
  \/ Logout
  \/ CheckSessionExpiry
  \/ \E session_id \in SessionIds : TerminateSession(session_id)
  \/ \E current_password \in ChangePasswords, new_password \in ChangePasswords :
        ChangePassword(current_password, new_password)

SpecPassword == Init /\ [][NextPassword]_vars

\* Tokens handed out while sessions and users come and go.
NextJwt ==
  \/ Initialize
  \/ Tick
  \/ Login("admin", "admin123", FALSE)
  \/ Logout
  \/ CheckSessionExpiry
  \/ CreateUser(Alice)
  \/ \E user_id \in NewUserIds : UpdateUser(user_id, [role |-> "viewer"])
  \/ \E user_id \in NewUserIds : DeleteUser(user_id)
  \/ \E session_id \in SessionIds : TerminateSession(session_id)
  \/ \E user_id \in UserIds : GenerateJwtToken(user_id)

SpecJwt == Init /\ [][NextJwt]_vars

\* Every role given to a user, and the user logged in with it.
NextRoles ==
  \/ Initialize
  \/ Tick
  \/ \E c \in Credentials : Login(c[1], c[2], FALSE)
  \/ Logout
  \/ CreateUser(Alice)
  \/ \E user_id \in UserIds, role \in UserRole :
        UpdateUser(user_id, [role |-> role])

SpecRoles == Init /\ [][NextRoles]_vars

\* Users deactivated by delete_user and by update_user, by either admin.
NextDelete ==
  \/ Initialize
  \/ Tick
  \/ CheckSessionExpiry
  \/ \E c \in Credentials : Login(c[1], c[2], FALSE)
  \/ Logout
  \/ CreateUser(Alice)
  \/ \E user_id \in UserIds,
        updated_data \in {[role |-> "admin"], [is_active |-> FALSE]} :
        UpdateUser(user_id, updated_data)
  \/ \E user_id \in UserIds : DeleteUser(user_id)

SpecDelete == Init /\ [][NextDelete]_vars

\* The sweep among the operations on sessions, with sessions of both
\* durations.
NextSweep ==
  \/ Initialize
  \/ Tick
  \/ \E c \in Credentials, remember_me \in BOOLEAN : Login(c[1], c[2], remember_me)
  \/ Logout
  \/ CheckSessionExpiry
  \/ Cleanup
  \/ CreateUser(Alice)
  \/ \E hours \in {SessionTicks} : ExtendCurrentSession(hours)
  \/ \E session_id \in SessionIds : TerminateSession(session_id)

SpecSweep == Init /\ [][NextSweep]_vars

(* ------------------------ login() on two threads ---------------------- *)

\* The threads that call login("admin", "wrong") at the same time.
Threads == {"t1", "t2"}

\* One call of login in flight: where it is, the value it read for
\* "failed_login_attempts += 1", the counter when it began, its result.
Call(pc, attempts, began_at, val) ==
  [pc |-> pc, attempts |-> attempts, began_at |-> began_at, val |-> val]

Step(t, call) == thr' = [thr EXCEPT ![t] = call]

\* login, lines 349-370: the calls begin; validation, the lookup and the
\* is_active test read what no login writes.
LoginBegin(T) ==
  /\ initialized
  /\ T # {}
  /\ \A t \in DOMAIN thr : thr[t].pc = "done"
  /\ validate_login_data("admin", "wrong")
  /\ find_user_by_username_or_email("admin") = admin_001
  /\ users[admin_001].is_active
  /\ users[admin_001].failed_login_attempts + Cardinality(T) <= MaxFailed
  /\ thr' = [t \in T |->
               Call("is_locked", None,
                    users[admin_001].failed_login_attempts, None)]
  /\ emitted' = <<>>
  /\ UNCHANGED <<now, tokens, mgr, ctl, auth>>

\* login, lines 373-377
LoginCheckLocked(t) ==
  /\ t \in DOMAIN thr /\ thr[t].pc = "is_locked"
  /\ IF is_locked(users[admin_001])
     THEN /\ Step(t, [thr[t] EXCEPT !.pc = "done", !.val = FALSE])
          /\ emitted' = emitted \o <<"account_locked", "error_occurred">>
     ELSE /\ Step(t, [thr[t] EXCEPT !.pc = "verify_password"])
          /\ UNCHANGED emitted
  /\ UNCHANGED <<now, tokens, mgr, ctl, auth>>

\* login, line 380: "wrong" is not the password.
LoginVerifyPassword(t) ==
  /\ t \in DOMAIN thr /\ thr[t].pc = "verify_password"
  /\ ~verify_password("wrong", users[admin_001].password_hash,
                      users[admin_001].salt)
  /\ Step(t, [thr[t] EXCEPT !.pc = "load_attempts"])
  /\ UNCHANGED <<now, tokens, mgr, ctl, auth, emitted>>

\* login, line 382: the read of "failed_login_attempts += 1"
LoginLoadAttempts(t) ==
  /\ t \in DOMAIN thr /\ thr[t].pc = "load_attempts"
  /\ Step(t, [thr[t] EXCEPT !.pc = "store_attempts",
                            !.attempts = users[admin_001].failed_login_attempts])
  /\ UNCHANGED <<now, tokens, mgr, ctl, auth, emitted>>

\* login, line 382: the write of "failed_login_attempts += 1"
LoginStoreAttempts(t) ==
  /\ t \in DOMAIN thr /\ thr[t].pc = "store_attempts"
  /\ users' = [users EXCEPT
                 ![admin_001].failed_login_attempts = thr[t].attempts + 1]
  /\ Step(t, [thr[t] EXCEPT !.pc = "compare"])
  /\ UNCHANGED <<now, tokens, mgr, ctl, sessObj, sessions, current_user, current_session,
                 emitted>>

\* login, lines 385-397: the lock or the warning, and the return.
LoginLockOrWarn(t) ==
  /\ t \in DOMAIN thr /\ thr[t].pc = "compare"
  /\ IF users[admin_001].failed_login_attempts >= max_login_attempts
     THEN /\ users' = [users EXCEPT
                         ![admin_001].locked_until = {now + LockoutTicks}]
          /\ emitted' = emitted
                          \o <<"account_locked", "error_occurred", "login_failed">>
     ELSE /\ UNCHANGED users
          /\ emitted' = emitted \o <<"error_occurred", "login_failed">>
  /\ Step(t, [thr[t] EXCEPT !.pc = "done", !.val = FALSE])
  /\ UNCHANGED <<now, tokens, mgr, ctl, sessObj, sessions, current_user, current_session>>

\* login("admin", "wrong") called on one or two threads, the calls
\* interleaved statement by statement.
NextRace ==
  \/ Initialize
  \/ Tick
  \/ \E T \in SUBSET Threads : LoginBegin(T)
  \/ \E t \in Threads : LoginCheckLocked(t)
  \/ \E t \in Threads : LoginVerifyPassword(t)
  \/ \E t \in Threads : LoginLoadAttempts(t)
  \/ \E t \in Threads : LoginStoreAttempts(t)
  \/ \E t \in Threads : LoginLockOrWarn(t)

SpecRace == Init /\ [][NextRace]_vars

(* ------------- the sweep beside a caller, on two threads -------------- *)

\* The thread of the session timer and the thread of the callers.
sweep_thread == "sweep"
caller_thread == "caller"

\* A call that is not in flight on thread t.
Idle(t) == IF t \in DOMAIN thr THEN thr[t].pc = "done" ELSE TRUE

\* _check_session_expiry, line 305: the iteration over _sessions.items()
\* begins.  The iterator keeps the size of the dict and the items ahead.
SweepBegin ==
  /\ session_timer
  /\ Idle(sweep_thread)
  /\ thr' = (sweep_thread :>
               [pc |-> "iterate", size |-> Cardinality(sessions),
                ahead |-> InOrder(sessions), expired_sessions |-> <<>>,
                session |-> None, raised |-> FALSE])
            @@ thr
  /\ emitted' = <<>>
  /\ UNCHANGED <<now, tokens, mgr, ctl, auth>>

\* _check_session_expiry, lines 305-307: one step of the iteration.  A dict
\* whose size has changed makes the iterator raise RuntimeError, which
\* line 318 catches: the sweep is over.
SweepIterate ==
  /\ sweep_thread \in DOMAIN thr /\ thr[sweep_thread].pc = "iterate"
  /\ LET call == thr[sweep_thread]
         session_id == Head(call.ahead)
     IN IF Cardinality(sessions) # call.size
        THEN Step(sweep_thread, [call EXCEPT !.pc = "done", !.raised = TRUE])
        ELSE IF call.ahead = <<>>
        THEN Step(sweep_thread, [call EXCEPT !.pc = "pop"])
        ELSE Step(sweep_thread,
                  [call EXCEPT
                     !.ahead = Tail(@),
                     !.expired_sessions =
                       IF session_id \in sessions /\ ~is_valid(sessObj[session_id])
                       THEN Append(@, session_id) ELSE @])
  /\ UNCHANGED <<now, tokens, mgr, ctl, auth, emitted>>

\* _check_session_expiry, lines 310-312: the pop of the next expired id.
SweepPop ==
  /\ sweep_thread \in DOMAIN thr /\ thr[sweep_thread].pc = "pop"
  /\ LET call == thr[sweep_thread]
         session_id == Head(call.expired_sessions)
     IN IF call.expired_sessions = <<>>
        THEN /\ Step(sweep_thread, [call EXCEPT !.pc = "done"])
             /\ UNCHANGED sessions
        ELSE IF session_id \in sessions
        THEN /\ sessions' = sessions \ {session_id}
             /\ Step(sweep_thread, [call EXCEPT !.pc = "status",
                                                !.session = session_id])
        ELSE /\ Step(sweep_thread, [call EXCEPT !.expired_sessions = Tail(@)])
             /\ UNCHANGED sessions
  /\ UNCHANGED <<now, tokens, mgr, ctl, users, sessObj, current_user, current_session,
                 emitted>>

\* _check_session_expiry, line 313
SweepStatus ==
  /\ sweep_thread \in DOMAIN thr /\ thr[sweep_thread].pc = "status"
  /\ sessObj' = [sessObj EXCEPT ![thr[sweep_thread].session].status = EXPIRED]
  /\ Step(sweep_thread, [thr[sweep_thread] EXCEPT !.pc = "emit"])
  /\ UNCHANGED <<now, tokens, mgr, ctl, users, sessions, current_user, current_session,
                 emitted>>

\* _check_session_expiry, lines 314-316, with _handle_session_expiry
SweepEmit ==
  /\ sweep_thread \in DOMAIN thr /\ thr[sweep_thread].pc = "emit"
  /\ LET call == thr[sweep_thread]
         handled == current_session = call.session /\ current_user # None
     IN /\ emitted' = emitted \o sweep_signals(<<call.session>>)
        /\ current_user' = IF handled THEN None ELSE current_user
        /\ current_session' = IF handled THEN None ELSE current_session
        /\ Step(sweep_thread, [call EXCEPT !.pc = "pop", !.session = None,
                                           !.expired_sessions = Tail(@)])
  /\ UNCHANGED <<now, tokens, mgr, ctl, users, sessObj, sessions>>

\* terminate_session, lines 860-866: the permission and the lookup.
TerminateBegin(session_id) ==
  /\ Idle(caller_thread)
  /\ has_permission(USER_MANAGE)
  /\ session_id \in sessions
  /\ thr' = (caller_thread :>
               [pc |-> "status", session |-> session_id, val |-> None])
            @@ thr
  /\ UNCHANGED <<now, tokens, mgr, ctl, auth, emitted>>

\* terminate_session, line 867
TerminateStatus ==
  /\ caller_thread \in DOMAIN thr /\ thr[caller_thread].pc = "status"
  /\ sessObj' = [sessObj EXCEPT ![thr[caller_thread].session].status = TERMINATED]
  /\ Step(caller_thread, [thr[caller_thread] EXCEPT !.pc = "del"])
  /\ UNCHANGED <<now, tokens, mgr, ctl, users, sessions, current_user, current_session,
                 emitted>>

\* terminate_session, lines 868-871: the del, whose KeyError (the session
\* has left the dict) line 876 catches.
TerminateDel ==
  /\ caller_thread \in DOMAIN thr /\ thr[caller_thread].pc = "del"
  /\ LET call == thr[caller_thread]
     IN /\ sessions' = sessions \ {call.session}
        /\ Step(caller_thread,
                [call EXCEPT !.pc = "done", !.val = call.session \in sessions])
  /\ UNCHANGED <<now, tokens, mgr, ctl, users, sessObj, current_user, current_session,
                 emitted>>

\* login, logout and extend_current_session called on the callers' thread
\* between two statements of the sweep.
CallerLogin(remember_me) ==
  /\ Idle(caller_thread)
  /\ Login("admin", "admin123", remember_me)

CallerLogout ==
  /\ Idle(caller_thread)
  /\ Logout

CallerExtendCurrentSession(hours) ==
  /\ Idle(caller_thread)
  /\ ExtendCurrentSession(hours)

\* The sweep, statement by statement, beside the calls of one caller.
NextSweepRace ==
  \/ Initialize
  \/ Tick
  \/ SweepBegin
  \/ SweepIterate
  \/ SweepPop
  \/ SweepStatus
  \/ SweepEmit
  \/ \E remember_me \in BOOLEAN : CallerLogin(remember_me)
  \/ CallerLogout
  \/ \E hours \in {SessionTicks} : CallerExtendCurrentSession(hours)
  \/ \E session_id \in SessionIds : TerminateBegin(session_id)
  \/ TerminateStatus
  \/ TerminateDel

SpecSweepRace == Init /\ [][NextSweepRace]_vars

(* -------------------------------- claims ------------------------------ *)

\* The users an identifier logs in, and the passwords that are theirs.
LogsIn(identifier, uid) == find_user_by_username_or_email(identifier) = uid
Correct(password, uid) ==
  hash_password(password, users[uid].salt) = users[uid].password_hash

(***************************************************************************)
(* C1.  Lockout threshold.  For an active user: a wrong password on an     *)
(* unlocked account raises failed_login_attempts by one, and the attempt   *)
(* that brings it to max_login_attempts sets locked_until in the future    *)
(* (below the threshold no lock is set, so the N-th consecutive wrong      *)
(* password is the one that locks); while now < locked_until every login,  *)
(* the correct password included, returns False and creates no session;    *)
(* at now >= locked_until a correct-password login returns True and leaves *)
(* failed_login_attempts = 0 and locked_until unset.                       *)
(***************************************************************************)
C1_LockoutThreshold ==
  \A uid \in DOMAIN users :
    LET user == users[uid]
        locked == \E t \in user.locked_until : now < t
    IN
    /\ user.failed_login_attempts < max_login_attempts => user.locked_until = {}
    /\ \A identifier \in LoginIdentifiers, password \in LoginPasswords,
          remember_me \in BOOLEAN :
         LET e == login(identifier, password, remember_me)
         IN (LogsIn(identifier, uid) /\ password # "" /\ user.is_active) =>
              /\ locked =>
                   /\ e.val = FALSE
                   /\ e.sessObj = sessObj /\ e.sessions = sessions
                   /\ e.current_session = current_session
              /\ (~locked /\ ~Correct(password, uid)) =>
                   /\ e.val = FALSE
                   /\ e.sessObj = sessObj /\ e.sessions = sessions
                   /\ e.users[uid].failed_login_attempts =
                        user.failed_login_attempts + 1
                   /\ e.users[uid].failed_login_attempts >= max_login_attempts =>
                        \E t \in e.users[uid].locked_until : now < t
              /\ (~locked /\ Correct(password, uid)) =>
                   /\ e.val = TRUE
                   /\ e.users[uid].failed_login_attempts = 0
                   /\ e.users[uid].locked_until = {}
                   /\ e.current_session \in e.sessions \ DOMAIN sessObj

\* C1's case: an active account that N wrong passwords locked, and whose
\* lockout has elapsed.
C1_Witness ==
  \E uid \in DOMAIN users :
    /\ users[uid].is_active
    /\ users[uid].failed_login_attempts = max_login_attempts
    /\ \E t \in users[uid].locked_until : now >= t

(***************************************************************************)
(* C2.  Role captured at login.  A step that changes the role of the user  *)
(* who owns the current session, and leaves that session current, leaves   *)
(* the answer of has_permission(p) as it was, for every permission p.      *)
(***************************************************************************)
C2_RoleCapturedAtLogin ==
  [][(/\ current_user # None /\ current_session # None
      /\ current_user' = current_user /\ current_session' = current_session
      /\ users'[current_user].role # users[current_user].role)
     => \A p \in Permission : has_permission(p)' = has_permission(p)]_vars

(***************************************************************************)
(* C3.  Permission gate.  With no current session, with a current session  *)
(* that is not Active or has reached expires_at, or with a current user    *)
(* whose role lacks USER_MANAGE,                                           *)
(* create_user, update_user, delete_user, reset_failed_login_attempts and  *)
(* terminate_session fail and leave users and sessions as they were, and   *)
(* get_all_users lists nothing; get_active_sessions lists nothing when     *)
(* AUDIT_VIEW is lacking in the same way.                                  *)
(***************************************************************************)
C3_Lacks(permission) ==
  \/ current_session = None
  \/ current_user = None
  \/ sessObj[current_session].status # ACTIVE
  \/ now >= sessObj[current_session].expires_at
  \/ permission \notin get_permissions(users[current_user].role)

C3_Refused(e, val) ==
  /\ e.val = val
  /\ e.users = users
  /\ e.sessions = sessions
  /\ e.sessObj = sessObj

C3_PermissionGate ==
  /\ C3_Lacks(USER_MANAGE) =>
       /\ \A user_data \in CreateInputs : C3_Refused(create_user(user_data), None)
       /\ \A user_id \in UserIds \cup {"user_0"} :
            /\ \A updated_data \in UpdateInputs :
                 C3_Refused(update_user(user_id, updated_data), FALSE)
            /\ C3_Refused(delete_user(user_id), FALSE)
       /\ \A username \in LoginIdentifiers :
            C3_Refused(reset_failed_login_attempts(username), FALSE)
       /\ \A session_id \in SessionIds :
            C3_Refused(terminate_session(session_id), FALSE)
       /\ \A include_inactive \in BOOLEAN : get_all_users(include_inactive) = {}
  /\ C3_Lacks(AUDIT_VIEW) => get_active_sessions = {}

\* C3's case: an admin whose current session has expired and is still in
\* the session map, with another user and another session to act on.
C3_Witness ==
  /\ current_user # None /\ current_session # None
  /\ users[current_user].role = "admin"
  /\ sessObj[current_session].status = ACTIVE
  /\ now >= sessObj[current_session].expires_at
  /\ current_session \in sessions
  /\ \E uid \in DOMAIN users : uid # current_user /\ users[uid].is_active
  /\ \E sid \in sessions : sid # current_session

(***************************************************************************)
(* C4.  Session validity boundary.  A current session is usable exactly    *)
(* when its status is Active and now < expires_at: from now = expires_at   *)
(* on, is_authenticated and has_permission(p) are False, swept or not.     *)
(***************************************************************************)
C4_ValidityBoundary ==
  /\ is_authenticated <=>
       /\ current_user # None /\ current_session # None
       /\ sessObj[current_session].status = ACTIVE
       /\ now < sessObj[current_session].expires_at
  /\ (current_session # None /\ now >= sessObj[current_session].expires_at) =>
       /\ ~is_authenticated
       /\ \A p \in Permission : ~has_permission(p)
  /\ \A sid \in DOMAIN sessObj :
       is_valid(sessObj[sid]) <=>
         (sessObj[sid].status = ACTIVE /\ now < sessObj[sid].expires_at)

\* C4's case: the current session is at the instant expires_at, not swept.
C4_Witness ==
  /\ current_user # None /\ current_session # None
  /\ current_session \in sessions
  /\ sessObj[current_session].status = ACTIVE
  /\ now = sessObj[current_session].expires_at
  /\ users[current_user].role = "admin"

(***************************************************************************)
(* C5.  Expired and Terminated are absorbing.  No step of login, logout,   *)
(* extend_current_session, terminate_session, delete_user, update_user or  *)
(* the sweep changes the status of a session that is Expired or            *)
(* Terminated.                                                             *)
(***************************************************************************)
C5_StatusAbsorbing ==
  [][\A sid \in DOMAIN sessObj :
       sessObj[sid].status \in {EXPIRED, TERMINATED} =>
         /\ sid \in DOMAIN sessObj'
         /\ sessObj'[sid].status = sessObj[sid].status]_vars

\* C5's case: an Expired and a Terminated session exist while the timer
\* runs and a user is logged in, so that every operation can still act.
C5_Witness ==
  /\ \E sid \in DOMAIN sessObj : sessObj[sid].status = EXPIRED
  /\ \E sid \in DOMAIN sessObj : sessObj[sid].status = TERMINATED
  /\ session_timer

(***************************************************************************)
(* C6.  delete_user.  When delete_user(u) returns True, u is still in the  *)
(* user map with is_active False, and every session of u that was in the   *)
(* session map is absent from it and has status Terminated, so that        *)
(* is_valid is False for it.                                               *)
(***************************************************************************)
C6_DeleteTerminatesSessions ==
  \A user_id \in UserIds :
    LET e == delete_user(user_id)
    IN e.val = TRUE =>
         /\ user_id \in DOMAIN e.users
         /\ ~e.users[user_id].is_active
         /\ \A sid \in sessions :
              sessObj[sid].user_id = user_id =>
                /\ sid \notin e.sessions
                /\ e.sessObj[sid].status = TERMINATED
                /\ ~is_valid(e.sessObj[sid])

(***************************************************************************)
(* C7.  Two wrong-password logins at once.  When two login calls with a    *)
(* wrong password began while failed_login_attempts was 2 and both have    *)
(* returned, failed_login_attempts is 3, locked_until is set, and          *)
(* account_locked was emitted exactly once by the two calls.               *)
(***************************************************************************)
C7_Emissions(signal) ==
  Cardinality({i \in 1..Len(emitted) : emitted[i] = signal})

C7_SimultaneousWrongLogins ==
  (/\ DOMAIN thr = Threads
   /\ \A t \in Threads : thr[t].pc = "done" /\ thr[t].began_at = 2)
  => /\ users[admin_001].failed_login_attempts = 3
     /\ users[admin_001].locked_until # {}
     /\ C7_Emissions("account_locked") = 1

(***************************************************************************)
(* C8.  Unique names.  In every state reached by create_user, update_user  *)
(* and delete_user from the bootstrap state, no two distinct active users  *)
(* share a username and no two share an email.                             *)
(***************************************************************************)
C8_UniqueAmongActive ==
  \A uid \in DOMAIN users, other \in DOMAIN users :
    (uid # other /\ users[uid].is_active /\ users[other].is_active) =>
      /\ users[uid].username # users[other].username
      /\ users[uid].email # users[other].email

\* C8's case: two active users, one of them renamed and given a new email
\* by update_user.
C8_Witness ==
  \E uid \in DOMAIN users, other \in DOMAIN users :
    /\ uid # other
    /\ users[uid].is_active /\ users[other].is_active
    /\ users[uid].username = "bob"
    /\ users[uid].email = "bob@pharmacy.local"

(***************************************************************************)
(* C9.  Duplicate on create.  create_user called by a caller who holds     *)
(* USER_MANAGE, with a username or an email (as given, or as create_user   *)
(* normalises it) that an active user already has, returns None and leaves *)
(* the user map as it was.                                                 *)
(***************************************************************************)
C9_Duplicate(user_data) ==
  \E uid \in DOMAIN users :
    /\ users[uid].is_active
    /\ \/ users[uid].username
            \in {user_data.username, sanitize_input(user_data.username, 50)}
       \/ users[uid].email
            \in {user_data.email, lower(sanitize_input(user_data.email, 255))}

C9_DuplicateRejected ==
  \A user_data \in CreateInputs :
    (has_permission(USER_MANAGE) /\ C9_Duplicate(user_data)) =>
      /\ create_user(user_data).val = None
      /\ create_user(user_data).users = users

\* C9's case: an authorized caller, a second active user, and an otherwise
\* acceptable request that repeats only that user's email.
C9_Witness ==
  /\ has_permission(USER_MANAGE)
  /\ \E uid \in DOMAIN users \ {admin_001} :
       /\ users[uid].is_active
       /\ \E user_data \in CreateInputs :
            /\ validate_user_data(user_data, FALSE).is_valid
            /\ sanitize_input(user_data.username, 50) # users[uid].username
            /\ lower(sanitize_input(user_data.email, 255)) = users[uid].email
            /\ \A o \in DOMAIN users :
                 users[o].username # sanitize_input(user_data.username, 50)
            /\ create_user(user_data).val = None

(***************************************************************************)
(* C10.  logout twice.  With a user logged in, logout returns True, marks  *)
(* the current session Terminated, takes it out of the session map and     *)
(* clears the current user and session; with nobody logged in, logout      *)
(* returns False and changes nothing.  A session that has left the session *)
(* map never comes back into it and is never the current session again,    *)
(* and get_active_sessions lists only Active sessions of the map.          *)
(***************************************************************************)
C10_FirstLogout ==
  (current_user # None /\ current_session # None) =>
    /\ logout.val = TRUE
    /\ logout.sessObj[current_session].status = TERMINATED
    /\ current_session \notin logout.sessions
    /\ logout.current_user = None
    /\ logout.current_session = None

C10_SecondLogout ==
  (current_user = None \/ current_session = None) =>
    /\ logout.val = FALSE
    /\ logout.users = users
    /\ logout.sessObj = sessObj
    /\ logout.sessions = sessions
    /\ logout.current_user = current_user
    /\ logout.current_session = current_session

C10_NeverReachableAgain ==
  \A sid \in DOMAIN sessObj :
    /\ (sid \notin sessions => sid \notin sessions')
    /\ (sid # current_session => sid # current_session')
    /\ (sessObj[sid].status = TERMINATED => sessObj'[sid].status = TERMINATED)

C10_LogoutTwice ==
  /\ [](/\ C10_FirstLogout
        /\ C10_SecondLogout
        /\ current_user = None <=> current_session = None
        /\ \A sid \in get_active_sessions :
             sid \in sessions /\ sessObj[sid].status = ACTIVE)
  /\ [][C10_NeverReachableAgain]_vars

\* C10's case: a logout has acted (the timer still runs, so cleanup has
\* not), its session is Terminated and out of the map, nobody is logged
\* in, and the next logout fails.
C10_Witness ==
  /\ session_timer
  /\ current_user = None /\ current_session = None
  /\ Cardinality(DOMAIN sessObj) = 1
  /\ \A sid \in DOMAIN sessObj :
       sessObj[sid].status = TERMINATED /\ sid \notin sessions
  /\ logout.val = FALSE

(***************************************************************************)
(* C11.  change_password needs an active session.  When the current        *)
(* session is not Active or has reached expires_at (swept or not),         *)
(* change_password returns False and leaves every password_hash and salt   *)
(* as they were.                                                           *)
(***************************************************************************)
C11_ChangePasswordNeedsActiveSession ==
  (current_session # None /\ ~is_valid(sessObj[current_session])) =>
    \A current_password \in ChangePasswords, new_password \in ChangePasswords :
      LET e == change_password(current_password, new_password)
      IN /\ e.val = FALSE
         /\ \A uid \in DOMAIN users :
              /\ e.users[uid].password_hash = users[uid].password_hash
              /\ e.users[uid].salt = users[uid].salt

(***************************************************************************)
(* C12.  JWT round trip and failures.  For a token generate_jwt_token has  *)
(* produced: before its expiry verify_jwt_token returns its claims; with   *)
(* the signature altered, and from its expiry on, verify_jwt_token reports *)
(* a failure; and the failure for the altered token differs from the       *)
(* failure for the expired token.                                          *)
(***************************************************************************)
\* The token with a signature that is not the one its payload and the key
\* give.
C12_AlterSignature(token) ==
  [token EXCEPT !.signature = jwt_sign(token.payload, "altered")]

C12_JwtVerification ==
  \A token \in tokens :
    /\ now < token.payload.exp =>
         /\ verify_jwt_token(token) # {}
         /\ \A claims \in verify_jwt_token(token) :
              /\ claims.user_id = token.payload.user_id
              /\ claims.username = token.payload.username
              /\ claims.role = token.payload.role
         /\ verify_jwt_token(C12_AlterSignature(token)) = {}
    /\ now >= token.payload.exp =>
         /\ verify_jwt_token(token) = {}
         /\ verify_jwt_token(C12_AlterSignature(token)) = {}
         /\ verify_jwt_token(token) # verify_jwt_token(C12_AlterSignature(token))

(***************************************************************************)
(* C13.  A token stands on its own.  A token generate_jwt_token has        *)
(* produced verifies, with the claims it was issued with, at every time    *)
(* before iat + 24 hours and at no later time, whatever logout,            *)
(* terminate_session, the sweep, delete_user or update_user have done to   *)
(* the sessions and the user since.                                        *)
(***************************************************************************)
C13_TokenIndependent ==
  \A token \in tokens :
    IF now < token.payload.iat + TokenTicks
    THEN verify_jwt_token(token) = {token.payload}
    ELSE verify_jwt_token(token) = {}

\* C13's case: an unexpired token of a user who has since been given
\* another role and deactivated, after sessions have left the map.
C13_Witness ==
  \E token \in tokens :
    /\ now > token.payload.iat
    /\ now < token.payload.exp
    /\ ~users[token.payload.user_id].is_active
    /\ users[token.payload.user_id].role # token.payload.role
    /\ \E sid \in DOMAIN sessObj : sid \notin sessions
    /\ verify_jwt_token(token) = {token.payload}

(***************************************************************************)
(* C14.  The permission table.  Admin holds all 15 permissions;            *)
(* Pharmacist and Nutritionist hold client and diet create/read/update     *)
(* and report generate/view; Assistant holds client create/read/update,    *)
(* diet read and report view; Viewer holds client read, diet read and      *)
(* report view; only Admin holds a delete permission or one of             *)
(* USER_MANAGE, SETTINGS_MANAGE, BACKUP_RESTORE, AUDIT_VIEW.  Every user,  *)
(* and the logged-in user through the controller, has exactly the          *)
(* permissions of the table for their role.                                *)
(***************************************************************************)
C14_Expected(role) ==
  CASE role = "admin" -> Permission
    [] role = "pharmacist" ->
         {"client:create", "client:read", "client:update"}
           \cup {"diet:create", "diet:read", "diet:update"}
           \cup {"report:generate", "report:view"}
    [] role = "nutritionist" ->
         {"client:create", "client:read", "client:update"}
           \cup {"diet:create", "diet:read", "diet:update"}
           \cup {"report:generate", "report:view"}
    [] role = "assistant" ->
         {"client:create", "client:read", "client:update"}
           \cup {"diet:read"} \cup {"report:view"}
    [] role = "viewer" -> {"client:read", "diet:read", "report:view"}

C14_AdminOnly ==
  {"client:delete", "diet:delete", "report:delete",
   "user:manage", "settings:manage", "backup:restore", "audit:view"}

C14_PermissionTable ==
  /\ Cardinality(Permission) = 15
  /\ Cardinality(UserRole) = 5
  /\ C14_AdminOnly \subseteq Permission
  /\ \A role \in UserRole :
       /\ get_permissions(role) = C14_Expected(role)
       /\ role # "admin" => get_permissions(role) \cap C14_AdminOnly = {}
  /\ \A uid \in DOMAIN users, permission \in Permission :
       user_has_permission(users[uid], permission)
         <=> permission \in C14_Expected(users[uid].role)
  /\ is_authenticated =>
       \A permission \in Permission :
         has_permission(permission)
           <=> permission \in C14_Expected(users[current_user].role)

\* C14's case: a viewer is logged in and asks for permissions, next to a
\* user who holds another role than Admin.
C14_Witness ==
  /\ is_authenticated
  /\ users[current_user].role = "viewer"
  /\ has_permission("client:read") /\ ~has_permission("client:update")
  /\ \E uid \in DOMAIN users : users[uid].role = "pharmacist"

(***************************************************************************)
(* C15.  Lazy clearing of the lock.  When login evaluates the lock of an   *)
(* active user whose locked_until is set and not after now, the stored     *)
(* locked_until is unset once the call has returned.                       *)
(***************************************************************************)
C15_LockClearedWhenPast ==
  \A uid \in DOMAIN users :
    \A identifier \in LoginIdentifiers, password \in LoginPasswords :
      (/\ LogsIn(identifier, uid)
       /\ validate_login_data(identifier, password)
       /\ users[uid].is_active
       /\ users[uid].locked_until # {}
       /\ \A t \in users[uid].locked_until : t <= now)
      => login(identifier, password, FALSE).users[uid].locked_until = {}

(***************************************************************************)
(* C16.  Extending needs an Active session.  extend_current_session with   *)
(* no current session, or with a current session whose status is           *)
(* Terminated or Expired, changes no field of any session.                 *)
(***************************************************************************)
C16_ExtendOnlyActive ==
  \A hours \in {SessionTicks, RememberTicks} :
    LET e == extend_current_session(hours)
    IN /\ current_session = None => (e.val = FALSE /\ e.sessObj = sessObj)
       /\ (/\ current_session # None
           /\ sessObj[current_session].status \in {TERMINATED, EXPIRED})
          => e.sessObj = sessObj

(***************************************************************************)
(* C17.  Bootstrap.  Initializing with an empty user map creates exactly   *)
(* one user, with role Admin and is_active True; with a user map that is   *)
(* not empty, and on every later initialization, no user is created or     *)
(* changed.                                                                *)
(***************************************************************************)
C17_LoadUsers ==
  /\ DOMAIN users = {} =>
       /\ Cardinality(DOMAIN load_users) = 1
       /\ \A uid \in DOMAIN load_users :
            load_users[uid].role = "admin" /\ load_users[uid].is_active
  /\ DOMAIN users # {} => load_users = users
  /\ initialized <=> DOMAIN users # {}

C17_Bootstrap ==
  /\ []C17_LoadUsers
  /\ [][/\ initialized => initialized'
        /\ Initialize =>
             IF initialized THEN users' = users ELSE users' = load_users]_vars

\* C17's case: initialization has run, and the user map has since changed,
\* so that a second load meets a map that is not empty.
C17_Witness ==
  /\ initialized
  /\ Cardinality(DOMAIN users) > 1
  /\ users[admin_001].role # "admin"
  /\ load_users = users

(***************************************************************************)
(* C18.  Rejected before the password is looked at.  A login with an empty *)
(* username or password, with an identifier no user has, or for a user     *)
(* with is_active False returns False, changes no field of any user,       *)
(* creates no session, and leaves current_user and current_session as      *)
(* they were.                                                              *)
(***************************************************************************)
C18_Rejected(identifier, password) ==
  \/ identifier = ""
  \/ password = ""
  \/ find_user_by_username_or_email(identifier) = None
  \/ ~users[find_user_by_username_or_email(identifier)].is_active

C18_RejectedLoginFrame ==
  \A identifier \in LoginIdentifiers, password \in LoginPasswords,
     remember_me \in BOOLEAN :
    C18_Rejected(identifier, password) =>
      LET e == login(identifier, password, remember_me)
      IN /\ e.val = FALSE
         /\ e.users = users
         /\ e.sessObj = sessObj
         /\ e.sessions = sessions
         /\ e.current_user = current_user
         /\ e.current_session = current_session

\* C18's case: somebody is logged in, and a login with the right password
\* of a deactivated user is rejected.
C18_Witness ==
  /\ current_user # None /\ current_session # None
  /\ \E uid \in DOMAIN users :
       /\ ~users[uid].is_active
       /\ users[uid].username = "alice"
       /\ Correct("Str0ngPass", uid)
       /\ login("alice", "Str0ngPass", FALSE).val = FALSE

(***************************************************************************)
(* C19.  Attempts during a lockout.  While now < locked_until, a login for *)
(* the locked user returns False whatever the password, and leaves         *)
(* failed_login_attempts and locked_until as they were.                    *)
(***************************************************************************)
C19_LockedLoginFrame ==
  \A uid \in DOMAIN users :
    \A identifier \in LoginIdentifiers, password \in LoginPasswords,
       remember_me \in BOOLEAN :
      (/\ LogsIn(identifier, uid)
       /\ validate_login_data(identifier, password)
       /\ users[uid].is_active
       /\ \E t \in users[uid].locked_until : now < t)
      => LET e == login(identifier, password, remember_me)
         IN /\ e.val = FALSE
            /\ e.users[uid].failed_login_attempts
                 = users[uid].failed_login_attempts
            /\ e.users[uid].locked_until = users[uid].locked_until
            /\ e.users = users

\* C19's case: an account locked a second time, after its first lockout
\* had elapsed, is tried with the right and with a wrong password.
C19_Witness ==
  \E uid \in DOMAIN users :
    /\ users[uid].is_active
    /\ users[uid].failed_login_attempts > max_login_attempts
    /\ \E t \in users[uid].locked_until : now < t
    /\ login(users[uid].username, "admin123", FALSE).val = FALSE
    /\ login(users[uid].username, "wrong", FALSE).val = FALSE

(***************************************************************************)
(* C20.  delete_user on an inactive user.  Called by an authorized caller  *)
(* for another user who is already inactive, delete_user returns True and  *)
(* leaves the user map as it was; it removes from the session map the      *)
(* sessions of that user that are still in it (those update_user left      *)
(* there when it deactivated the user), so the session map is unchanged    *)
(* exactly when that user has no session in it; and right after a          *)
(* delete_user that returned True, a second one for the same user changes  *)
(* nothing.                                                                *)
(***************************************************************************)
C20_InactiveTarget(user_id) ==
  /\ user_id \in DOMAIN users
  /\ ~users[user_id].is_active
  /\ has_permission(USER_MANAGE)
  /\ user_id # current_user

C20_SessionsOf(user_id) ==
  {sid \in sessions : sessObj[sid].user_id = user_id}

C20_NoChange(user_id) ==
  /\ delete_user(user_id).val = TRUE
  /\ delete_user(user_id).users = users
  /\ delete_user(user_id).sessions = sessions

C21_Emissions(e, sid) ==
  Cardinality({i \in 1..Len(e.sig) : e.sig[i] = <<"session_expired", sid>>})

C21_Due(sid) ==
  sessObj[sid].status = ACTIVE /\ now >= sessObj[sid].expires_at

C21_SweepOnce ==
  LET e == check_session_expiry
  IN /\ \A sid \in sessions :
          /\ C21_Due(sid) =>
               /\ e.sessObj[sid] = [sessObj[sid] EXCEPT !.status = EXPIRED]
               /\ sid \notin e.sessions
               /\ C21_Emissions(e, sid) = 1
          /\ now < sessObj[sid].expires_at =>
               /\ e.sessObj[sid] = sessObj[sid]
               /\ sid \in e.sessions
               /\ C21_Emissions(e, sid) = 0
     /\ (/\ current_session # None
         /\ current_session \in sessions
         /\ C21_Due(current_session))
        => e.current_user = None /\ e.current_session = None

\* C21's case: the timer runs, and the map holds the current session, which
\* has expired, next to a session that has not.
C21_Witness ==
  /\ session_timer
  /\ current_user # None /\ current_session # None
  /\ current_session \in sessions /\ C21_Due(current_session)
  /\ \E sid \in sessions : now < sessObj[sid].expires_at
  /\ check_session_expiry.current_user = None

(***************************************************************************)
(* C22.  The sweep beside other calls.  With the sweep interleaved with    *)
(* login, extend_current_session, logout and terminate_session, in every   *)
(* state each session is either in the session map with status Active or   *)
(* out of it with status Expired or Terminated, and a sweep that has ended *)
(* has not been cut short by an error.                                     *)
(***************************************************************************)
C22_NoHalfUpdatedSession ==
  /\ \A sid \in DOMAIN sessObj :
       \/ sid \in sessions /\ sessObj[sid].status = ACTIVE
       \/ sid \notin sessions /\ sessObj[sid].status \in {EXPIRED, TERMINATED}
  /\ sweep_thread \in DOMAIN thr => ~thr[sweep_thread].raised

(***************************************************************************)
(* C23.  The sweep stops with cleanup.  Once cleanup has stopped the       *)
(* session timer, the timer stays stopped whatever is called (initialize   *)
(* included), the sweep cannot run, and no step gives a session the status *)
(* Expired or takes out of the session map a session that has expired.     *)
(***************************************************************************)
C23_Cancelled == initialized /\ ~session_timer

C23_NoSweepStep ==
  C23_Cancelled =>
    /\ C23_Cancelled'
    /\ \A sid \in DOMAIN sessObj' :
         sessObj'[sid].status = EXPIRED =>
           sid \in DOMAIN sessObj /\ sessObj[sid].status = EXPIRED
    /\ \A sid \in sessions \ sessions' :
         sessObj'[sid].status # EXPIRED

C23_NoSweepAfterCleanup ==
  /\ [](C23_Cancelled => ~ENABLED CheckSessionExpiry)
  /\ [][C23_NoSweepStep]_vars

\* C23's case: after a cleanup, a session created by a later login is in
\* the session map, Active and past its expires_at: the sweep would take
\* it, and does not run.
C23_Witness ==
  /\ C23_Cancelled
  /\ \E sid \in sessions :
       sessObj[sid].status = ACTIVE /\ now > sessObj[sid].expires_at
  /\ check_session_expiry.sessions # sessions

(***************************************************************************)
(* C24.  Dependency order.  With controllers registered in any order and   *)
(* none initialized yet, initialize_all initializes every registered       *)
(* controller, and initializes d before c for every two registered         *)
(* controllers c and d with d among the dependencies c was registered      *)
(* with.  (Dependencies that form a cycle, which no order can satisfy, are *)
(* left aside.)                                                            *)
(***************************************************************************)
C24_Place(name, calls) == CHOOSE i \in 1..Len(calls) : calls[i] = name

\* The controllers c depends on, directly or through others.
C24_Needs(c) ==
  LET direct(S) == UNION {dependencies[x] : x \in S \cap DOMAIN dependencies}
      one == direct({c})
      two == one \cup direct(one)
  IN two \cup direct(two)

\* No controller depends on itself, directly or through others.
C24_Acyclic == \A c \in DOMAIN controllers : c \notin C24_Needs(c)

C24_DependencyOrder ==
  (C24_Acyclic /\ initialize_calls = <<>>) =>
    LET calls == to_initialize(initialization_order)
    IN \A c \in DOMAIN controllers :
         /\ c \in Range(calls)
         /\ \A d \in dependencies[c] \cap DOMAIN controllers :
              /\ d \in Range(calls)
              /\ C24_Place(d, calls) < C24_Place(c, calls)

(***************************************************************************)
(* C25.  The counter stays within the threshold.  In every state, every    *)
(* user has 0 <= failed_login_attempts <= max_login_attempts.              *)
(***************************************************************************)
C25_CounterWithinMax ==
  \A uid \in DOMAIN users :
    /\ 0 <= users[uid].failed_login_attempts
    /\ users[uid].failed_login_attempts <= max_login_attempts

(***************************************************************************)
(* C26.  A deactivated user holds no authenticated context.  Whenever the  *)
(* current user has is_active False, is_authenticated is False and         *)
(* has_permission(p) is False for every permission p.                      *)
(***************************************************************************)
C26_DeactivatedHoldsNothing ==
  (current_user # None /\ ~users[current_user].is_active) =>
    /\ ~is_authenticated
    /\ \A p \in Permission : ~has_permission(p)

(***************************************************************************)
(* C27.  A failed update changes nothing.  An update_user that returns     *)
(* False leaves username, email, role and is_active of the target user as  *)
(* they were.                                                              *)
(***************************************************************************)
C27_FailedUpdateChangesNothing ==
  \A user_id \in DOMAIN users, updated_data \in UpdateInputs :
    LET e == update_user(user_id, updated_data)
    IN e.val = FALSE =>
         /\ e.users[user_id].username = users[user_id].username
         /\ e.users[user_id].email = users[user_id].email
         /\ e.users[user_id].role = users[user_id].role
         /\ e.users[user_id].is_active = users[user_id].is_active

(***************************************************************************)
(* C28.  An administrator always remains.  In every state reached from the *)
(* bootstrap state by login, logout, create_user, update_user and          *)
(* delete_user, some user has role Admin and is_active True.               *)
(***************************************************************************)
C28_SomeActiveAdmin ==
  initialized =>
    \E uid \in DOMAIN users : users[uid].role = "admin" /\ users[uid].is_active

(***************************************************************************)
(* C29.  Logout leaves the user no session.  A logout that returns True    *)
(* leaves in the session map no session of the user who logged out that is *)
(* Active with now < expires_at.                                           *)
(***************************************************************************)
C29_LogoutLeavesNoSession ==
  logout.val = TRUE =>
    \A sid \in logout.sessions :
      logout.sessObj[sid].user_id = current_user =>
        ~(logout.sessObj[sid].status = ACTIVE
          /\ now < logout.sessObj[sid].expires_at)

(***************************************************************************)
(* C30.  Current user and current session go together.  In every state,    *)
(* current_user is unset exactly when current_session is unset; when both  *)
(* are set, the current session is a session of the current user; and      *)
(* whenever is_authenticated is True the current session is in the session *)
(* map.                                                                    *)
(***************************************************************************)
C30_CurrentPair ==
  /\ current_user = None <=> current_session = None
  /\ (current_user # None /\ current_session # None) =>
       /\ current_user \in DOMAIN users
       /\ current_session \in DOMAIN sessObj
       /\ sessObj[current_session].user_id = current_user
  /\ is_authenticated => current_session \in sessions

\* C30's case: a user is authenticated after delete_user has taken the
\* sessions of another user out of the session map, and after an earlier
\* current session has been swept or ended.
C30_Witness ==
  /\ is_authenticated
  /\ \E uid \in DOMAIN users :
       /\ ~users[uid].is_active
       /\ \E sid \in DOMAIN sessObj \ sessions :
            sessObj[sid].user_id = uid /\ sessObj[sid].status = ACTIVE

=============================================================================
